---- MODULE Spec2Model ----
(***************************************************************************)
(* String-art path synthesis: the greedy search of generate_path in its    *)
(* four variants                                                           *)
(*   "sum"       main.py                     GreedyGenerator (aggregate)   *)
(*   "mean"      src/greedy_generator.py     GreedyGenerator (average)     *)
(*   "negative"  src/negative_greedy_generator.py  NegativeGreedyGenerator *)
(*   "contour"   src/contour_generator.py    ContourGenerator              *)
(* over the residual image, the eye protection mask and the nail circle    *)
(* built by the constructor (abstract_generator.py / main.py).             *)
(*                                                                         *)
(* Scores are float32 in the code.  Residual values, line_darkness and the *)
(* thresholds of the model are integers and mask weights are tenths, so a  *)
(* score is an exact rational <<numerator, denominator>> in lowest terms.  *)
(***************************************************************************)
EXTENDS Integers, Sequences, FiniteSets, TLC

VARIABLES
    gen,                   \* which generator class the object is
    num_nails,             \* self.num_nails
    image_size,            \* self.image_size
    eye_regions,           \* self.eye_regions (output of _detect_eyes)
    eye_protection_mask,   \* self.eye_protection_mask, weights in tenths
    residual_image,        \* self.residual_image
    path,                  \* self.path
    result,                \* the list the last finished call returned
    num_lines,             \* generate_path argument
    line_darkness,         \* generate_path argument
    min_improvement_score, \* generate_path argument
    darkness_threshold,    \* generate_path argument (contour only)
    current_nail,          \* local of generate_path
    iteration,             \* the index of the for loop over range(num_lines)
    next_nail,             \* the index of the inner for loop
    best_next_nail,        \* local of generate_path
    max_score,             \* local of generate_path, a rational
    pc,                    \* position: idle, loop, scan, done, returned
    state,                 \* Idle, Running, StoppedEarlyExit, StoppedMaxLines
    calls,                 \* history: number of generate_path calls so far
    commits,               \* history: chords committed by the current call
    res_start,             \* history: residual_image when the call started
    res_iter,              \* history: residual_image when the iteration started
    path_iter,             \* history: path when the iteration started
    dark_segments,         \* the dark_segments list of each candidate scored in
                           \* the scan, where the scan is taken at the level of
                           \* runs (TierSpec); unused by the pixel-level scan
    path_obj,              \* the identity of the list object self.path names
    unbound,               \* the contents of the list objects self.path named
                           \* before it was bound to another one
    returns                \* history: for each finished call, the list object
                           \* it returned and the contents it had then

vars == <<gen, num_nails, image_size, eye_regions, eye_protection_mask,
          residual_image, path, result, num_lines, line_darkness,
          min_improvement_score, darkness_threshold, current_nail, iteration,
          next_nail, best_next_nail, max_score, pc, state, calls, commits,
          res_start, res_iter, path_iter, dark_segments, path_obj, unbound,
          returns>>

-----------------------------------------------------------------------------
(* Bounds of the model and the input sets the environment draws from.      *)

MaxLines == 2

MaxCalls == 1

\* RepeatSpec: the most calls of generate_path on one generator
RepeatCalls == 2

\* <<image_size, num_nails>> pairs the constructor is called with
Configs == {<<4, 1>>, <<4, 2>>, <<4, 4>>, <<5, 5>>}

Generators == {"sum", "mean", "negative", "contour"}

\* uniform grey levels of the preprocessed target image
UniformLevels == {0, 255}

\* the pixel (row, col) at which the spot image is one grey level below white;
\* the chords from nail 0 to nail 1 or 2 cross it in every configuration
SpotPixel == <<2, 0>>

LineDarknessValues == {100, 300}

MinScoreValues == {-1, 0, 1}

ThresholdValues == {10, 255}

\* TierSpec: the most runs a candidate's dark_segments list holds
MaxSegments == 2

\* TierSpec: the run lengths a dark_segments list is built from
RunLengths == {1, 2237}

\* TierSpec: the image sizes (500 is the default of the constructor)
TierSizes == {500, 4500}

\* TierSpec: the number of nails; from nail 0 the chord to nail 2 is a
\* diameter of image_size - 9 pixels
TierNails == 4

\* lists of (x, y, w, h) regions _detect_eyes may hand to the mask builder
EyeRegionLists ==
    {<<>>,
     <<[x |-> 1, y |-> 1, w |-> 2, h |-> 2], [x |-> 0, y |-> 2, w |-> 1, h |-> 2]>>}

-----------------------------------------------------------------------------
(* Program constants.                                                      *)

ClipMax == 255

SingleSegmentBonus == 10000000

SegmentPenalty == 1000000

-----------------------------------------------------------------------------
(* Arithmetic helpers.                                                     *)

Abs(x) == IF x < 0 THEN -x ELSE x

RECURSIVE GCD(_, _)
GCD(a, b) == IF b = 0 THEN a ELSE GCD(b, a % b)

\* a rational in lowest terms with a positive denominator
Rat(n, d) ==
    LET g == GCD(Abs(n), d) IN <<n \div g, d \div g>>

RatLess(a, b) == a[1] * b[2] < b[1] * a[2]

RECURSIVE SumSeq(_)
SumSeq(s) == IF s = <<>> THEN 0 ELSE s[1] + SumSeq(Tail(s))

Cells(size) == (0 .. size - 1) \X (0 .. size - 1)

-----------------------------------------------------------------------------
(* Nail geometry.                                                          *)

\* _calculate_nail_coords: (x, y) = int(center + radius * (cos, sin)(2 pi i / n))
\* with center = size // 2, radius = size // 2 - 5, int() truncating toward zero.  The trigonometry is evaluated in IEEE
\* doubles, so the table lists the values the code computes for the
\* configurations of Configs (the radius is negative for these sizes).
nail_coords(size, n) ==
    CASE <<size, n>> = <<4, 1>> -> << <<-1, 2>> >>
      [] <<size, n>> = <<4, 2>> -> << <<-1, 2>>, <<5, 1>> >>
      [] <<size, n>> = <<4, 4>> -> << <<-1, 2>>, <<1, -1>>, <<5, 1>>, <<2, 5>> >>
      [] <<size, n>> = <<5, 5>> ->
            << <<-1, 2>>, <<1, 0>>, <<4, 0>>, <<4, 3>>, <<1, 4>> >>

\* self.nail_coords[i]: a numpy array, so a negative index counts from the end
NailAt(size, n, i) ==
    nail_coords(size, n)[(IF i < 0 THEN n + i ELSE i) + 1]

-----------------------------------------------------------------------------
(* Chord rasterizer: skimage.draw.line(r0, c0, r1, c1).                    *)

RECURSIVE WhileD(_, _, _, _)
\* while d >= 0: r = r + sr; d = d - 2 * dc
WhileD(r, d, sr, dc) ==
    IF d >= 0 THEN WhileD(r + sr, d - 2 * dc, sr, dc) ELSE <<r, d>>

RECURSIVE LineLoop(_, _, _, _, _, _, _, _, _)
\* for i in range(dc): emit the pixel, advance r while d >= 0, advance c
LineLoop(i, dc, dr, r, c, d, sr, sc, steep) ==
    IF i >= dc
    THEN <<>>
    ELSE LET px == IF steep THEN <<c, r>> ELSE <<r, c>>
             rd == WhileD(r, d, sr, dc)
         IN <<px>> \o LineLoop(i + 1, dc, dr, rd[1], c + sc,
                               rd[2] + 2 * dr, sr, sc, steep)

get_line_pixels(r0, c0, r1, c1) ==
    LET dr == Abs(r1 - r0)
        dc == Abs(c1 - c0)
        sc == IF c1 - c0 > 0 THEN 1 ELSE -1
        sr == IF r1 - r0 > 0 THEN 1 ELSE -1
        steep == dr > dc
    IN IF steep
       THEN LineLoop(0, dr, dc, c0, r0, 2 * dc - dr, sc, sr, TRUE)
                \o << <<r1, c1>> >>
       ELSE LineLoop(0, dc, dr, r0, c0, 2 * dr - dc, sr, sc, FALSE)
                \o << <<r1, c1>> >>

InBounds(size, p) ==
    p[1] >= 0 /\ p[1] < size /\ p[2] >= 0 /\ p[2] < size

\* the nail indices the search can hold: -1 is the initial best_next_nail
NailIndices(n) == -1 .. n - 1

\* rr, cc = get_line_pixels(start[1], start[0], end[1], end[0]) and the
\* pixels rr[valid_indices], cc[valid_indices] of the chord ab[1] -> ab[2]
ChordOf(cfg, ab) ==
    LET s == NailAt(cfg[1], cfg[2], ab[1])
        e == NailAt(cfg[1], cfg[2], ab[2])
        line == get_line_pixels(s[2], s[1], e[2], e[1])
    IN [line |-> line,
        valid |-> SelectSeq(line, LAMBDA p : InBounds(cfg[1], p))]

RECURSIVE ChordsOver(_, _)
\* the chords of a configuration, tabulated over the pairs of nail indices
ChordsOver(cfg, pairs) ==
    IF pairs = {}
    THEN <<>>
    ELSE LET ab == CHOOSE x \in pairs : TRUE
         IN (ab :> ChordOf(cfg, ab)) @@ ChordsOver(cfg, pairs \ {ab})

RECURSIVE ChordsOfConfigs(_)
ChordsOfConfigs(cfgs) ==
    IF cfgs = {}
    THEN <<>>
    ELSE LET cfg == CHOOSE x \in cfgs : TRUE
         IN (cfg :> ChordsOver(cfg, NailIndices(cfg[2]) \X NailIndices(cfg[2])))
                @@ ChordsOfConfigs(cfgs \ {cfg})

\* every chord of every configuration, rasterized once
ChordTable == ChordsOfConfigs(Configs)

\* the (row, col) pixels of the chord from nail a to nail b, in line order
ChordPixels(size, n, a, b) == ChordTable[<<size, n>>][<<a, b>>].line

\* the in-bounds pixels of the chord from nail a to nail b, in line order
ValidPixels(size, n, a, b) == ChordTable[<<size, n>>][<<a, b>>].valid

-----------------------------------------------------------------------------
(* Constructor: target image, eye protection mask, residual image.         *)

\* the preprocessed grayscale target images (values of a uint8 array):
\* uniform grey, the field whose darkness residual is a 0/200 checkerboard,
\* and the white field with one pixel of darkness residual 1
TargetImages(size) ==
    {[p \in Cells(size) |-> v] : v \in UniformLevels}
        \cup {[p \in Cells(size) |-> IF (p[1] + p[2]) % 2 = 0 THEN 255 ELSE 55]}
        \cup {[p \in Cells(size) |-> IF p = SpotPixel THEN 254 ELSE 255]}

\* protection = 0.1 + 0.4 * dist for dist <= 1, in tenths; dist is
\* sqrt(dist_x^2 + dist_y^2) with dist_x = |j - center_x| / (w / 2).  The
\* regions of the model have w and h in {1, 2}, where dist is 0, 1 or more.
Protection(reg, i, j) ==
    LET center_x == reg.x + reg.w \div 2
        center_y == reg.y + reg.h \div 2
        num == 4 * (j - center_x) * (j - center_x) * reg.h * reg.h
                 + 4 * (i - center_y) * (i - center_y) * reg.w * reg.w
        den == reg.w * reg.w * reg.h * reg.h
    IN CASE num = 0 -> 1
         [] num = den -> 5
         [] num > den -> 10

InRegion(reg, size, i, j) ==
    /\ i >= reg.y /\ i < (IF reg.y + reg.h < size THEN reg.y + reg.h ELSE size)
    /\ j >= reg.x /\ j < (IF reg.x + reg.w < size THEN reg.x + reg.w ELSE size)

RECURSIVE MaskOver(_, _, _)
\* the loop over self.eye_regions: mask[i, j] = min(mask[i, j], protection)
MaskOver(mask, regs, size) ==
    IF regs = <<>>
    THEN mask
    ELSE LET reg == Head(regs)
             m2 == [p \in Cells(size) |->
                      IF InRegion(reg, size, p[1], p[2])
                           /\ Protection(reg, p[1], p[2]) < mask[p]
                      THEN Protection(reg, p[1], p[2])
                      ELSE mask[p]]
         IN MaskOver(m2, Tail(regs), size)

create_eye_protection_mask(size, regs) ==
    MaskOver([p \in Cells(size) |-> 10], regs, size)

\* 255.0 - target_image, overridden by NegativeGreedyGenerator.__init__ with
\* the target image itself
InitialResidual(g, target) ==
    IF g = "negative"
    THEN target
    ELSE [p \in DOMAIN target |-> ClipMax - target[p]]

-----------------------------------------------------------------------------
(* Scoring strategies, each on the pixels of the chord a -> b.             *)

ValuesAt(field, px) == [k \in 1 .. Len(px) |-> field[px[k]]]

\* main.py: residual_image[rr[valid], cc[valid]].sum()
ScoreSum(res, px) == Rat(SumSeq(ValuesAt(res, px)), 1)

\* greedy_generator.py: the mean, 0 without valid pixels
ScoreMean(res, px) ==
    IF Len(px) > 0 THEN Rat(SumSeq(ValuesAt(res, px)), Len(px)) ELSE <<0, 1>>

\* a score that weighs pixel by pixel: the mean of residual * weight
ScoreNegativePixelwise(res, mask, px) ==
    IF Len(px) > 0
    THEN Rat(SumSeq([k \in 1 .. Len(px) |-> res[px[k]] * mask[px[k]]]),
             10 * Len(px))
    ELSE <<0, 1>>

\* negative_greedy_generator.py: base_score * protection_weights.mean()
ScoreNegative(res, mask, px) ==
    IF Len(px) > 0
    THEN Rat(SumSeq(ValuesAt(res, px)) * SumSeq(ValuesAt(mask, px)),
             10 * Len(px) * Len(px))
    ELSE <<0, 1>>

RECURSIVE ContourScan(_, _, _, _, _, _, _)
\* for r, c in zip(rr, cc): the run bookkeeping; returns
\* <<len(dark_segments), continuous_score>> with the last run added
ContourScan(line, res, size, thr, current_run, segs, cont) ==
    IF line = <<>>
    THEN IF current_run > 0
         THEN <<segs + 1, cont + current_run * current_run>>
         ELSE <<segs, cont>>
    ELSE LET p == Head(line) IN
         IF InBounds(size, p)
         THEN IF res[p] > thr
              THEN ContourScan(Tail(line), res, size, thr,
                               current_run + 1, segs, cont)
              ELSE IF current_run > 0
                   THEN ContourScan(Tail(line), res, size, thr, 0, segs + 1,
                                    cont + current_run * current_run)
                   ELSE ContourScan(Tail(line), res, size, thr,
                                    current_run, segs, cont)
         ELSE ContourScan(Tail(line), res, size, thr, current_run, segs, cont)

\* the score left in current_score by the penalty formula alone
TierScorePenalty(num_segments, continuous_score) ==
    <<continuous_score - num_segments * SegmentPenalty, 1>>

\* the two tiers: the bonus for one segment, 0 for none, the base score else
\* (these assignments overwrite the penalty formula computed just before)
TierScore(num_segments, continuous_score) ==
    IF num_segments = 1
    THEN <<continuous_score + SingleSegmentBonus, 1>>
    ELSE IF num_segments = 0
         THEN <<0, 1>>
         ELSE <<continuous_score, 1>>

\* contour_generator.py: the two-tier score
ScoreContour(res, size, thr, line) ==
    LET sc == ContourScan(line, res, size, thr, 0, 0, 0)
        num_segments == sc[1]
        continuous_score == sc[2]
    IN TierScore(num_segments, continuous_score)

\* the score the generator g gives the chord a -> b on the field res
Score(g, size, n, res, mask, thr, a, b) ==
    CASE g = "sum" -> ScoreSum(res, ValidPixels(size, n, a, b))
      [] g = "mean" -> ScoreMean(res, ValidPixels(size, n, a, b))
      [] g = "negative" -> ScoreNegative(res, mask, ValidPixels(size, n, a, b))
      [] g = "contour" -> ScoreContour(res, size, thr, ChordPixels(size, n, a, b))

-----------------------------------------------------------------------------
(* The state after construction.                                           *)

Init ==
    /\ gen \in Generators
    /\ \E cfg \in Configs : image_size = cfg[1] /\ num_nails = cfg[2]
    \* main.py's StringArtGenerator has no eye detection and no mask
    /\ eye_regions \in (IF gen = "sum" THEN {<<>>} ELSE EyeRegionLists)
    /\ eye_protection_mask =
           IF gen = "sum"
           THEN <<>>
           ELSE create_eye_protection_mask(image_size, eye_regions)
    /\ \E target \in TargetImages(image_size) :
           residual_image = InitialResidual(gen, target)
    /\ path = <<>>
    /\ result = <<>>
    /\ num_lines = 0
    /\ line_darkness = 25
    /\ min_improvement_score = 10
    /\ darkness_threshold = 10
    /\ current_nail = 0
    /\ iteration = 0
    /\ next_nail = 0
    /\ best_next_nail = -1
    /\ max_score = <<-1, 1>>
    /\ pc = "idle"
    /\ state = "Idle"
    /\ calls = 0
    /\ commits = 0
    /\ res_start = residual_image
    /\ res_iter = residual_image
    /\ path_iter = <<>>
    /\ dark_segments = <<>>
    /\ path_obj = 0
    /\ unbound = <<>>
    /\ returns = <<>>

-----------------------------------------------------------------------------
(* generate_path, one action per step of its control flow.                 *)

\* the score of the candidate chord current_nail -> next_nail
CandidateScore ==
    Score(gen, image_size, num_nails, residual_image, eye_protection_mask,
          darkness_threshold, current_nail, next_nail)

\* a scan that lets a later candidate of equal score replace the earlier one
ImprovesOrTies(score) == ~RatLess(score, max_score)

\* if score > max_score
Improves(score) == RatLess(max_score, score)

\* an exit test that leaves the threshold out and compares with 0
ExitConditionAgainstZero == RatLess(max_score, <<0, 1>>)

\* an exit test that also fires when the best score equals the threshold
ExitConditionInclusive == ~RatLess(<<min_improvement_score, 1>>, max_score)

\* an exit test with the comparison turned around
ExitConditionReversed == RatLess(<<min_improvement_score, 1>>, max_score)

\* if max_score < min_improvement_score
ExitCondition == RatLess(max_score, <<min_improvement_score, 1>>)

\* a loop that runs one iteration too many
LoopGuardInclusive == iteration <= num_lines

\* for _ in range(num_lines): another iteration is due
LoopGuard == iteration < num_lines

\* the subtraction without the clamp
ClipNoFloor(v) == v - line_darkness

\* a draw with the sign of line_darkness turned around
ClipAdds(v) ==
    IF v + line_darkness < 0
    THEN 0
    ELSE IF v + line_darkness > ClipMax THEN ClipMax ELSE v + line_darkness

\* np.clip(v - line_darkness, 0, 255)
Clip(v) ==
    IF v - line_darkness < 0
    THEN 0
    ELSE IF v - line_darkness > ClipMax THEN ClipMax ELSE v - line_darkness

\* a draw that reuses the end_coord the scan left behind (the last candidate)
DrawnLastScanned ==
    LET last == IF current_nail = num_nails - 1
                THEN num_nails - 2
                ELSE num_nails - 1
        px == ValidPixels(image_size, num_nails, current_nail, last)
        hit == {px[k] : k \in 1 .. Len(px)}
    IN [p \in DOMAIN residual_image |->
          IF p \in hit THEN Clip(residual_image[p]) ELSE residual_image[p]]

\* residual_image[rr[valid], cc[valid]] = np.clip(... - line_darkness, 0, 255)
\* on the chord current_nail -> best_next_nail
Drawn ==
    LET px == ValidPixels(image_size, num_nails, current_nail, best_next_nail)
        hit == {px[k] : k \in 1 .. Len(px)}
    IN [p \in DOMAIN residual_image |->
          IF p \in hit THEN Clip(residual_image[p]) ELSE residual_image[p]]

\* an append made before the move to the new nail
AppendedBeforeMove == Append(path, current_nail)

\* self.path.append(current_nail), after current_nail = best_next_nail
Appended == Append(path, best_next_nail)

\* the residual image with the candidate chord drawn
DrawnCandidate ==
    LET px == ValidPixels(image_size, num_nails, current_nail, next_nail)
        hit == {px[k] : k \in 1 .. Len(px)}
    IN [p \in DOMAIN residual_image |->
          IF p \in hit THEN Clip(residual_image[p]) ELSE residual_image[p]]

\* a call that empties the list self.path names and refills it in place
SamePathObject == path_obj

\* self.path = [current_nail]: the list display makes a new list object
NewPathObject == path_obj + 1

\* the call: current_nail = 0; self.path = [current_nail]
Call(most) ==
    /\ pc \in {"idle", "returned"}
    /\ calls < most
    /\ num_lines' \in 0 .. MaxLines
    /\ line_darkness' \in LineDarknessValues
    /\ min_improvement_score' \in MinScoreValues
    /\ darkness_threshold' \in
           (IF gen = "contour" THEN ThresholdValues ELSE {darkness_threshold})
    /\ current_nail' = 0
    /\ path' = <<0>>
    /\ iteration' = 0
    /\ pc' = "loop"
    /\ state' = "Running"
    /\ calls' = calls + 1
    /\ commits' = 0
    /\ res_start' = residual_image
    /\ path_obj' = NewPathObject
    /\ unbound' = (path_obj :> path) @@ unbound
    /\ UNCHANGED <<returns, dark_segments, gen, num_nails, image_size,
                   eye_regions, eye_protection_mask,
                   residual_image, result, next_nail, best_next_nail, max_score,
                   res_iter, path_iter>>

\* generate_path called at most MaxCalls times on a generator
GeneratePath == Call(MaxCalls)

\* the for loop starts an iteration: best_next_nail = -1; max_score = -1
IterationStart ==
    /\ pc = "loop"
    /\ LoopGuard
    /\ best_next_nail' = -1
    /\ max_score' = <<-1, 1>>
    /\ next_nail' = 0
    /\ pc' = "scan"
    /\ res_iter' = residual_image
    /\ path_iter' = path
    /\ UNCHANGED <<path_obj, unbound, returns, dark_segments, gen,
                   num_nails, image_size, eye_regions,
                   eye_protection_mask,
                   residual_image, path, result, num_lines, line_darkness,
                   min_improvement_score, darkness_threshold, current_nail,
                   iteration, state, calls, commits, res_start>>

\* range(num_lines) is exhausted: the loop ends without break
LoopExhausted ==
    /\ pc = "loop"
    /\ ~LoopGuard
    /\ pc' = "done"
    /\ state' = "StoppedMaxLines"
    /\ UNCHANGED <<path_obj, unbound, returns, dark_segments, gen,
                   num_nails, image_size, eye_regions,
                   eye_protection_mask,
                   residual_image, path, result, num_lines, line_darkness,
                   min_improvement_score, darkness_threshold, current_nail,
                   iteration, next_nail, best_next_nail, max_score, calls,
                   commits, res_start, res_iter, path_iter>>

\* a scan without the continue: the chord from the current nail to itself
\* is scored like any other candidate
ScanSkipScores ==
    /\ pc = "scan"
    /\ next_nail < num_nails
    /\ next_nail = current_nail
    /\ IF Improves(CandidateScore)
       THEN max_score' = CandidateScore /\ best_next_nail' = next_nail
       ELSE UNCHANGED <<max_score, best_next_nail>>
    /\ next_nail' = next_nail + 1
    /\ UNCHANGED <<path_obj, unbound, returns, dark_segments, gen,
                   num_nails, image_size, eye_regions,
                   eye_protection_mask, residual_image, path, result,
                   num_lines, line_darkness, min_improvement_score,
                   darkness_threshold, current_nail, iteration, pc, state,
                   calls, commits, res_start, res_iter, path_iter>>

\* if next_nail == current_nail: continue
ScanSkip ==
    /\ pc = "scan"
    /\ next_nail < num_nails
    /\ next_nail = current_nail
    /\ next_nail' = next_nail + 1
    /\ UNCHANGED <<path_obj, unbound, returns, dark_segments, gen,
                   num_nails, image_size, eye_regions,
                   eye_protection_mask,
                   residual_image, path, result, num_lines, line_darkness,
                   min_improvement_score, darkness_threshold, current_nail,
                   iteration, best_next_nail, max_score, pc, state, calls,
                   commits, res_start, res_iter, path_iter>>

\* a scan that passes over the nails already on the path
ScanCandidateUnvisited ==
    /\ pc = "scan"
    /\ next_nail < num_nails
    /\ next_nail # current_nail
    /\ IF (\A k \in 1 .. Len(path) : path[k] # next_nail)
            /\ Improves(CandidateScore)
       THEN max_score' = CandidateScore /\ best_next_nail' = next_nail
       ELSE UNCHANGED <<max_score, best_next_nail>>
    /\ next_nail' = next_nail + 1
    /\ UNCHANGED <<path_obj, unbound, returns, dark_segments, gen,
                   num_nails, image_size, eye_regions,
                   eye_protection_mask, residual_image, path, result,
                   num_lines, line_darkness, min_improvement_score,
                   darkness_threshold, current_nail, iteration, pc, state,
                   calls, commits, res_start, res_iter, path_iter>>

\* a scoring pass that draws each candidate chord it tries
ScanCandidateDraws ==
    /\ pc = "scan"
    /\ next_nail < num_nails
    /\ next_nail # current_nail
    /\ IF Improves(CandidateScore)
       THEN max_score' = CandidateScore /\ best_next_nail' = next_nail
       ELSE UNCHANGED <<max_score, best_next_nail>>
    /\ next_nail' = next_nail + 1
    /\ residual_image' = DrawnCandidate
    /\ UNCHANGED <<path_obj, unbound, returns, dark_segments, gen,
                   num_nails, image_size, eye_regions,
                   eye_protection_mask, path, result, num_lines, line_darkness,
                   min_improvement_score, darkness_threshold, current_nail,
                   iteration, pc, state, calls, commits, res_start, res_iter,
                   path_iter>>

\* a scan whose choice among candidates of equal score is left open
ScanCandidateEitherOnTie ==
    /\ pc = "scan"
    /\ next_nail < num_nails
    /\ next_nail # current_nail
    /\ \/ /\ ~RatLess(CandidateScore, max_score)
          /\ max_score' = CandidateScore
          /\ best_next_nail' = next_nail
       \/ /\ ~Improves(CandidateScore)
          /\ UNCHANGED <<max_score, best_next_nail>>
    /\ next_nail' = next_nail + 1
    /\ UNCHANGED <<path_obj, unbound, returns, dark_segments, gen,
                   num_nails, image_size, eye_regions,
                   eye_protection_mask, residual_image, path, result,
                   num_lines, line_darkness, min_improvement_score,
                   darkness_threshold, current_nail, iteration, pc, state,
                   calls, commits, res_start, res_iter, path_iter>>

\* score the candidate; if score > max_score: remember it
ScanCandidate ==
    /\ pc = "scan"
    /\ next_nail < num_nails
    /\ next_nail # current_nail
    /\ IF Improves(CandidateScore)
       THEN max_score' = CandidateScore /\ best_next_nail' = next_nail
       ELSE UNCHANGED <<max_score, best_next_nail>>
    /\ next_nail' = next_nail + 1
    /\ UNCHANGED <<path_obj, unbound, returns, dark_segments, gen,
                   num_nails, image_size, eye_regions,
                   eye_protection_mask,
                   residual_image, path, result, num_lines, line_darkness,
                   min_improvement_score, darkness_threshold, current_nail,
                   iteration, pc, state, calls, commits, res_start, res_iter,
                   path_iter>>

\* a break placed after the draw instead of before it
EarlyExitAfterDraw ==
    /\ pc = "scan"
    /\ next_nail >= num_nails
    /\ ExitCondition
    /\ residual_image' = Drawn
    /\ pc' = "done"
    /\ state' = "StoppedEarlyExit"
    /\ UNCHANGED <<path_obj, unbound, returns, dark_segments, gen,
                   num_nails, image_size, eye_regions,
                   eye_protection_mask,
                   path, result, num_lines, line_darkness,
                   min_improvement_score, darkness_threshold, current_nail,
                   iteration, next_nail, best_next_nail, max_score, calls,
                   commits, res_start, res_iter, path_iter>>

\* if max_score < min_improvement_score: break
EarlyExit ==
    /\ pc = "scan"
    /\ next_nail >= num_nails
    /\ ExitCondition
    /\ pc' = "done"
    /\ state' = "StoppedEarlyExit"
    /\ UNCHANGED <<path_obj, unbound, returns, dark_segments, gen,
                   num_nails, image_size, eye_regions,
                   eye_protection_mask,
                   residual_image, path, result, num_lines, line_darkness,
                   min_improvement_score, darkness_threshold, current_nail,
                   iteration, next_nail, best_next_nail, max_score, calls,
                   commits, res_start, res_iter, path_iter>>

\* draw the best line, move to the new nail, append it to the path
\* (save_progress, called here by two generators, only reads the path)
Commit ==
    /\ pc = "scan"
    /\ next_nail >= num_nails
    /\ ~ExitCondition
    /\ residual_image' = Drawn
    /\ current_nail' = best_next_nail
    /\ path' = Appended
    /\ iteration' = iteration + 1
    /\ commits' = commits + 1
    /\ pc' = "loop"
    /\ UNCHANGED <<path_obj, unbound, returns, dark_segments, gen,
                   num_nails, image_size, eye_regions,
                   eye_protection_mask,
                   result, num_lines, line_darkness, min_improvement_score,
                   darkness_threshold, next_nail, best_next_nail, max_score,
                   state, calls, res_start, res_iter, path_iter>>

\* return self.path
Return ==
    /\ pc = "done"
    /\ pc' = "returned"
    /\ result' = path
    /\ returns' = Append(returns, [obj |-> path_obj, value |-> path])
    /\ UNCHANGED <<path_obj, unbound, dark_segments, gen,
                   num_nails, image_size, eye_regions,
                   eye_protection_mask,
                   residual_image, path, num_lines, line_darkness,
                   min_improvement_score, darkness_threshold, current_nail,
                   iteration, next_nail, best_next_nail, max_score, state,
                   calls, commits, res_start, res_iter, path_iter>>

Next ==
    \/ GeneratePath
    \/ IterationStart
    \/ LoopExhausted
    \/ ScanSkip
    \/ ScanCandidate
    \/ EarlyExit
    \/ Commit
    \/ Return

Spec == Init /\ [][Next]_vars

\* the interpreter runs a started call to its end
FairSpec ==
    Spec /\ WF_vars(IterationStart \/ LoopExhausted \/ ScanSkip
                      \/ ScanCandidate \/ EarlyExit \/ Commit \/ Return)

-----------------------------------------------------------------------------
(* The candidate scan of the contour generator at the level of runs: each  *)
(* candidate chord is given by the dark_segments list its pixel loop       *)
(* builds, which makes chords of the length of a large image tractable.    *)

\* continuous_score: the sum of current_run ** 2 over the runs appended
ContinuousScore(segs) == SumSeq([k \in 1 .. Len(segs) |-> segs[k] * segs[k]])

\* a chord of an image_size grid has at most image_size in-bounds pixels, and
\* two runs are separated by at least one pixel that is not dark
FitsChord(segs, size) ==
    Len(segs) = 0 \/ SumSeq(segs) + Len(segs) - 1 <= size

RECURSIVE SegmentLists(_)
\* the dark_segments lists of at most n runs with lengths in RunLengths
SegmentLists(n) ==
    IF n = 0
    THEN {<<>>}
    ELSE LET shorter == SegmentLists(n - 1)
         IN shorter \cup {Append(segs, r) : segs \in shorter, r \in RunLengths}

\* a generator in the first scan of a search, no candidate scored yet
TierInit ==
    /\ gen = "contour"
    /\ image_size \in TierSizes
    /\ num_nails = TierNails
    /\ eye_regions = <<>>
    /\ eye_protection_mask = <<>>
    /\ residual_image = <<>>
    /\ path = <<0>>
    /\ result = <<>>
    /\ num_lines = 1
    /\ line_darkness = 25
    /\ min_improvement_score = 10
    /\ darkness_threshold = 10
    /\ current_nail = 0
    /\ iteration = 0
    /\ next_nail = 0
    /\ best_next_nail = -1
    /\ max_score = <<-1, 1>>
    /\ pc = "scan"
    /\ state = "Running"
    /\ calls = 1
    /\ commits = 0
    /\ res_start = <<>>
    /\ res_iter = <<>>
    /\ path_iter = <<0>>
    /\ dark_segments = <<>>
    /\ path_obj = 1
    /\ unbound = (0 :> <<>>)
    /\ returns = <<>>

\* one candidate: the pixel loop leaves some dark_segments list; the tiers
\* give current_score; if current_score > max_score: remember the candidate
ScoreSegments ==
    /\ pc = "scan"
    /\ next_nail < num_nails
    /\ next_nail # current_nail
    /\ \E segs \in SegmentLists(MaxSegments) :
           /\ FitsChord(segs, image_size)
           /\ dark_segments' = (next_nail :> segs) @@ dark_segments
           /\ LET current_score == TierScore(Len(segs), ContinuousScore(segs))
              IN IF Improves(current_score)
                 THEN max_score' = current_score /\ best_next_nail' = next_nail
                 ELSE UNCHANGED <<max_score, best_next_nail>>
    /\ next_nail' = next_nail + 1
    /\ UNCHANGED <<path_obj, unbound, returns, gen, num_nails, image_size,
                   eye_regions, eye_protection_mask,
                   residual_image, path, result, num_lines, line_darkness,
                   min_improvement_score, darkness_threshold, current_nail,
                   iteration, pc, state, calls, commits, res_start, res_iter,
                   path_iter>>

TierNext ==
    \/ ScanSkip
    \/ ScoreSegments

TierSpec == TierInit /\ [][TierNext]_vars

-----------------------------------------------------------------------------
(* A generator whose generate_path is called again after it returned.      *)

\* generate_path called at most RepeatCalls times on a generator
GeneratePathAgain == Call(RepeatCalls)

RepeatNext ==
    \/ GeneratePathAgain
    \/ IterationStart
    \/ LoopExhausted
    \/ ScanSkip
    \/ ScanCandidate
    \/ EarlyExit
    \/ Commit
    \/ Return

RepeatSpec == Init /\ [][RepeatNext]_vars

-----------------------------------------------------------------------------
(* Vocabulary of the properties.                                           *)

Nails == 0 .. num_nails - 1

\* the score of the chord a -> b on the current residual image
ScoreOf(a, b) ==
    Score(gen, image_size, num_nails, residual_image, eye_protection_mask,
          darkness_threshold, a, b)

RatEq(a, b) == a[1] * b[2] = b[1] * a[2]

\* the candidate scan of the iteration is over and the decision is due
ScanOver == pc = "scan" /\ next_nail >= num_nails

BelowThreshold == max_score[1] < min_improvement_score * max_score[2]

\* the set of in-bounds pixels of the chord a -> b
ChordCells(a, b) ==
    LET px == ValidPixels(image_size, num_nails, a, b)
    IN {px[k] : k \in 1 .. Len(px)}

-----------------------------------------------------------------------------
(* C1: in every reachable state, before and after any number of commits,   *)
(* every cell of the residual image lies in [0, 255].                      *)
C1_ResidualInRange ==
    \A p \in DOMAIN residual_image :
        residual_image[p] >= 0 /\ residual_image[p] <= 255

\* two commits made, and a cell that held less than line_darkness is at 0
C1_Witness ==
    /\ commits >= 2
    /\ \E p \in DOMAIN residual_image :
           /\ residual_image[p] = 0
           /\ res_start[p] > 0
           /\ res_start[p] < line_darkness

(* C2: with at least two nails, the nail the scan of an iteration selects  *)
(* differs from the current nail, its chord has the maximum score over all *)
(* nails other than the current one, and it is the smallest index among    *)
(* the nails of maximum score.                                             *)
C2_SelectsFirstMaximum ==
    (ScanOver /\ num_nails >= 2) =>
        /\ best_next_nail \in Nails \ {current_nail}
        /\ RatEq(max_score, ScoreOf(current_nail, best_next_nail))
        /\ \A j \in Nails \ {current_nail} :
               /\ ~RatLess(ScoreOf(current_nail, best_next_nail),
                           ScoreOf(current_nail, j))
               /\ j < best_next_nail =>
                      RatLess(ScoreOf(current_nail, j),
                              ScoreOf(current_nail, best_next_nail))

\* a finished scan in which a later nail ties with the selected one
C2_Witness ==
    /\ ScanOver
    /\ num_nails >= 3
    /\ \E j \in Nails \ {current_nail} :
           /\ j > best_next_nail
           /\ RatEq(ScoreOf(current_nail, j),
                    ScoreOf(current_nail, best_next_nail))
    /\ \E j \in Nails \ {current_nail} :
           RatLess(ScoreOf(current_nail, j),
                   ScoreOf(current_nail, best_next_nail))

(* C3: when the scan of an iteration ends with the maximum score below     *)
(* min_improvement_score, the search stops early in that iteration without *)
(* a commit: the path and the residual image are those of the start of the *)
(* iteration, and the only step that follows is the return of that path.   *)
C3_EarlyExitCommitsNothing ==
    [][ /\ (ScanOver /\ BelowThreshold) =>
               /\ pc' = "done"
               /\ state' = "StoppedEarlyExit"
               /\ path' = path_iter
               /\ residual_image' = res_iter
               /\ commits' = commits
        /\ (pc = "done" /\ state = "StoppedEarlyExit") =>
               /\ pc' = "returned"
               /\ result' = path
               /\ path' = path
               /\ residual_image' = residual_image ]_vars

\* an early exit taken after a chord had been committed
C3_Witness ==
    /\ pc = "done"
    /\ state = "StoppedEarlyExit"
    /\ commits >= 1
    /\ iteration < num_lines

(* C4: a commit sets each in-bounds pixel v of the chord from the current  *)
(* nail to the winner to max(0, v - line_darkness), leaves every other     *)
(* cell unchanged, appends the winner to the path and makes it current.    *)
C4_CommitFrame ==
    [][ (ScanOver /\ ~BelowThreshold) =>
            /\ \A p \in DOMAIN residual_image :
                   residual_image'[p] =
                      IF p \in ChordCells(current_nail, best_next_nail)
                      THEN (IF residual_image[p] - line_darkness > 0
                            THEN residual_image[p] - line_darkness
                            ELSE 0)
                      ELSE residual_image[p]
            /\ DOMAIN residual_image' = DOMAIN residual_image
            /\ path' = Append(path, best_next_nail)
            /\ current_nail' = best_next_nail ]_vars

\* just after a commit that lowered one cell, floored another at 0 and left
\* a nonzero cell off the chord alone
C4_Witness ==
    /\ pc = "loop"
    /\ commits >= 1
    /\ \E p \in DOMAIN residual_image :
           residual_image[p] > 0 /\ residual_image[p] < res_iter[p]
    /\ \E p \in DOMAIN residual_image :
           residual_image[p] = 0 /\ res_iter[p] > 0
    /\ \E p \in DOMAIN residual_image :
           residual_image[p] = res_iter[p] /\ res_iter[p] > 0

(* C5: during and after a search the path is non-empty, starts with 0, has *)
(* one element more than the chords committed so far and ends with the     *)
(* current nail; within a search it changes only by a commit appending one *)
(* element.                                                                *)
C5_PathShape ==
    /\ [](pc # "idle" =>
            /\ Len(path) >= 1
            /\ path[1] = 0
            /\ Len(path) = commits + 1
            /\ path[Len(path)] = current_nail)
    /\ [][ \/ path' = path
           \/ pc \in {"idle", "returned"} /\ path' = <<0>>
           \/ /\ ScanOver
              /\ commits' = commits + 1
              /\ Len(path') = Len(path) + 1
              /\ SubSeq(path', 1, Len(path)) = path ]_vars

\* a path of three nails right after the second commit
C5_Witness ==
    /\ pc = "loop"
    /\ commits = 2
    /\ Len(path) = 3
    /\ path[2] # path[3]

\* every cell of the residual image was nonzero when the call started
StartedNonzero == \A p \in DOMAIN res_start : res_start[p] # 0

(* C6: with min_improvement_score = 0, at least two nails and a residual   *)
(* image that is nonzero everywhere at the start, the search takes no      *)
(* early exit and ends by the line count with exactly num_lines chords,    *)
(* whatever the scoring policy.                                            *)
C6_MaxCountWithZeroThreshold ==
    (pc # "idle" /\ min_improvement_score = 0 /\ num_nails >= 2
       /\ StartedNonzero) =>
        /\ state # "StoppedEarlyExit"
        /\ pc \in {"done", "returned"} =>
               /\ state = "StoppedMaxLines"
               /\ commits = num_lines
               /\ Len(path) = num_lines + 1
        /\ pc = "returned" => Len(result) = num_lines + 1

\* such a search returned after a scan whose best score was exactly 0
C6_Witness ==
    /\ pc = "returned"
    /\ min_improvement_score = 0
    /\ num_nails >= 2
    /\ StartedNonzero
    /\ num_lines >= 2
    /\ Len(result) = num_lines + 1
    /\ max_score = <<0, 1>>

\* the residual image was zero everywhere when the call started, and the
\* threshold is above the score of every chord on that image
StartedZeroBelowThreshold ==
    /\ \A p \in DOMAIN res_start : res_start[p] = 0
    /\ \A a \in Nails : \A b \in Nails :
           RatLess(Score(gen, image_size, num_nails, res_start,
                         eye_protection_mask, darkness_threshold, a, b),
                   <<min_improvement_score, 1>>)

(* C7: on a uniformly zero residual image with min_improvement_score above *)
(* every score that image allows, the search commits nothing: the path     *)
(* stays [0], the residual stays as it was, and when an iteration runs at  *)
(* all the search stops by early exit in the first one.                    *)
C7_EarlyExitOnZeroField ==
    (pc # "idle" /\ StartedZeroBelowThreshold) =>
        /\ commits = 0
        /\ path = <<0>>
        /\ residual_image = res_start
        /\ iteration = 0
        /\ (pc \in {"done", "returned"} /\ num_lines >= 1) =>
               state = "StoppedEarlyExit"
        /\ pc = "returned" => result = <<0>>

\* such a search returned [0] by early exit although lines were allowed
C7_Witness ==
    /\ pc = "returned"
    /\ StartedZeroBelowThreshold
    /\ num_lines >= 1
    /\ num_nails >= 2
    /\ state = "StoppedEarlyExit"
    /\ result = <<0>>

(* C8: for every num_lines >= 0 and every min_improvement_score the search *)
(* runs at most num_lines iterations, its path never has more than         *)
(* num_lines + 1 elements, and every started search returns.               *)
C8_BoundedByNumLines ==
    /\ [](pc # "idle" =>
            /\ iteration <= num_lines
            /\ (pc = "scan" => iteration < num_lines)
            /\ commits <= num_lines
            /\ Len(path) <= num_lines + 1)
    /\ (state = "Running" ~> pc = "returned")

\* a search with a threshold no score can fall below, returned after
\* exactly num_lines iterations
C8_Witness ==
    /\ pc = "returned"
    /\ min_improvement_score = -1
    /\ num_lines >= 2
    /\ iteration = num_lines
    /\ state = "StoppedMaxLines"

(* C9: a search that ended by early exit returns fewer than num_lines      *)
(* chords, one that ended by the line count returns exactly num_lines, and *)
(* in both cases the returned path starts at 0 and holds nail indices only. *)
C9_TerminalStatesDistinguishable ==
    pc = "returned" =>
        /\ state = "StoppedEarlyExit" => Len(result) - 1 < num_lines
        /\ state = "StoppedMaxLines" => Len(result) - 1 = num_lines
        /\ Len(result) >= 1
        /\ result[1] = 0
        /\ \A k \in 1 .. Len(result) : result[k] \in Nails

\* the same statement over the configurations with at least two nails
C9_WithTwoNails == num_nails >= 2 => C9_TerminalStatesDistinguishable

(* C10: a configuration with num_nails < 2 or image_size <= 0 is rejected  *)
(* before the first iteration of the search starts and returns no path.    *)
C10_InvalidConfigurationRejected ==
    (num_nails < 2 \/ image_size <= 0) =>
        /\ pc \notin {"scan", "done", "returned"}
        /\ result = <<>>

(* C11: whenever a candidate scan ends with best_next_nail still at the    *)
(* sentinel -1, the iteration is handled like an early exit for every      *)
(* value of min_improvement_score: the search stops, nothing is committed, *)
(* and -1 is neither appended to the path nor used to index the nails.     *)
C11_SentinelHandledAsEarlyExit ==
    /\ [](\A k \in 1 .. Len(path) : path[k] # -1)
    /\ [](current_nail # -1)
    /\ [][ (ScanOver /\ best_next_nail = -1) =>
               /\ pc' = "done"
               /\ state' = "StoppedEarlyExit"
               /\ path' = path
               /\ residual_image' = residual_image
               /\ commits' = commits ]_vars

\* the same statement over the thresholds the sentinel score -1 is below
C11_WithThresholdAboveSentinel ==
    [][ (ScanOver /\ best_next_nail = -1 /\ min_improvement_score > -1) =>
            /\ pc' = "done"
            /\ state' = "StoppedEarlyExit"
            /\ path' = path
            /\ residual_image' = residual_image
            /\ commits' = commits ]_vars

\* the tier score of a dark_segments list
SegmentsScore(segs) == TierScore(Len(segs), ContinuousScore(segs))

(* C12: under contour scoring a chord whose pixels hold exactly one dark    *)
(* run scores strictly higher than a chord whose pixels hold two or more    *)
(* dark runs, whatever the run lengths and chord lengths the grid allows,  *)
(* so the scan never selects the chord of several runs over it.            *)
C12_SingleRunDominates ==
    \A a \in DOMAIN dark_segments : \A b \in DOMAIN dark_segments :
        (Len(dark_segments[a]) = 1 /\ Len(dark_segments[b]) >= 2) =>
            /\ RatLess(SegmentsScore(dark_segments[b]),
                       SegmentsScore(dark_segments[a]))
            /\ best_next_nail # b

\* the same statement on the grid of the default image_size
C12_OnDefaultSize == image_size = 500 => C12_SingleRunDominates

\* pixel k of the in-bounds pixel sequence of the chord a -> b is dark
DarkAt(a, b, k) ==
    residual_image[ValidPixels(image_size, num_nails, a, b)[k]]
        > darkness_threshold

\* the positions at which a maximal run of dark pixels starts
RunStarts(a, b) ==
    {k \in 1 .. Len(ValidPixels(image_size, num_nails, a, b)) :
        DarkAt(a, b, k) /\ (k = 1 \/ ~DarkAt(a, b, k - 1))}

\* the length of the maximal run that starts at position k
RunLength(a, b, k) ==
    Cardinality({j \in k .. Len(ValidPixels(image_size, num_nails, a, b)) :
                    \A i \in k .. j : DarkAt(a, b, i)})

\* the reference value: segments and continuity of the chord a -> b
ReferenceScore(a, b) ==
    LET n == Len(ValidPixels(image_size, num_nails, a, b))
        segments == Cardinality(RunStarts(a, b))
        continuity ==
            SumSeq([k \in 1 .. n |->
                      IF k \in RunStarts(a, b)
                      THEN RunLength(a, b, k) * RunLength(a, b, k)
                      ELSE 0])
    IN CASE segments = 0 -> 0
         [] segments = 1 -> continuity + 10000000
         [] segments >= 2 -> continuity

(* C13: the contour score of a chord equals the reference value of its     *)
(* in-bounds pixel sequence: with segments the number of maximal runs of   *)
(* pixels whose residual is strictly above darkness_threshold (a run that  *)
(* reaches the last pixel counts) and continuity the sum of the squared    *)
(* run lengths, it is 0 for no segment, continuity + 10000000 for one and  *)
(* continuity for two or more, for every chord a scan scores.             *)
C13_ContourScoreIsReference ==
    (gen = "contour" /\ pc = "scan") =>
        \A b \in Nails \ {current_nail} :
            ScoreOf(current_nail, b) = <<ReferenceScore(current_nail, b), 1>>

\* a contour scan over chords of no, one and several runs, one of them with
\* a run that ends at the last pixel after a pixel that is not dark
C13_Witness ==
    /\ gen = "contour"
    /\ ScanOver
    /\ \E b \in Nails \ {current_nail} :
           Cardinality(RunStarts(current_nail, b)) = 0
               /\ ValidPixels(image_size, num_nails, current_nail, b) # <<>>
    /\ \E b \in Nails \ {current_nail} :
           Cardinality(RunStarts(current_nail, b)) = 1
    /\ \E b \in Nails \ {current_nail} :
           LET n == Len(ValidPixels(image_size, num_nails, current_nail, b))
           IN /\ Cardinality(RunStarts(current_nail, b)) >= 2
              /\ DarkAt(current_nail, b, n)

\* the weight mask of an image without protected regions, in tenths
UnprotectedMask == [p \in Cells(image_size) |-> 10]

\* every in-bounds pixel of the chord a -> b has the weight 0.1
FullyProtected(a, b) ==
    /\ ValidPixels(image_size, num_nails, a, b) # <<>>
    /\ \A p \in ChordCells(a, b) : eye_protection_mask[p] = 1

\* the sum of the residual over the in-bounds pixels of the chord a -> b
ChordSum(a, b) ==
    SumSeq(ValuesAt(residual_image, ValidPixels(image_size, num_nails, a, b)))

\* the score of the chord a -> b is the mean residual times the mean weight
IsMeanTimesMeanWeight(a, b) ==
    LET px == ValidPixels(image_size, num_nails, a, b)
        n == Len(px)
        weights == SumSeq(ValuesAt(eye_protection_mask, px))
    IN n > 0 =>
           ScoreOf(a, b)[1] * n * (10 * n) = ChordSum(a, b) * weights * ScoreOf(a, b)[2]

\* the score the chord a -> b has with the same residual and weight 1
UnprotectedScore(a, b) ==
    ScoreNegative(residual_image, UnprotectedMask,
                  ValidPixels(image_size, num_nails, a, b))

(* C14 as stated: under negative-space scoring the score of a chord is the *)
(* mean residual times the mean weight over its in-bounds pixels, and a    *)
(* chord whose pixels all have weight 0.1 scores strictly lower than a     *)
(* chord with the same residual values and weight 1.                       *)
C14_ProtectedScoresLower ==
    (gen = "negative" /\ pc = "scan") =>
        \A b \in Nails \ {current_nail} :
            /\ IsMeanTimesMeanWeight(current_nail, b)
            /\ FullyProtected(current_nail, b) =>
                   RatLess(ScoreOf(current_nail, b),
                           UnprotectedScore(current_nail, b))

(* C14 amended: the score is the mean residual times the mean weight; a    *)
(* chord whose pixels all have weight 0.1 scores strictly lower than with  *)
(* weight 1 when its residual sum is positive, and both scores are 0 when  *)
(* its residual is 0 on every pixel.                                       *)
C14_ProtectedScoresLowerIfPositive ==
    (gen = "negative" /\ pc = "scan") =>
        \A b \in Nails \ {current_nail} :
            /\ IsMeanTimesMeanWeight(current_nail, b)
            /\ FullyProtected(current_nail, b) =>
                   IF ChordSum(current_nail, b) > 0
                   THEN RatLess(ScoreOf(current_nail, b),
                                UnprotectedScore(current_nail, b))
                   ELSE /\ ScoreOf(current_nail, b) = <<0, 1>>
                        /\ UnprotectedScore(current_nail, b) = <<0, 1>>

\* a finished scan that scored a chord of weight 0.1 throughout with a
\* positive residual, and a chord whose weights and residuals both vary
C14_Witness ==
    /\ gen = "negative"
    /\ ScanOver
    /\ \E b \in Nails \ {current_nail} :
           /\ FullyProtected(current_nail, b)
           /\ ChordSum(current_nail, b) > 0
           /\ RatLess(ScoreOf(current_nail, b), UnprotectedScore(current_nail, b))
    /\ \E b \in Nails \ {current_nail} :
           \E p \in ChordCells(current_nail, b) :
               \E q \in ChordCells(current_nail, b) :
                   /\ eye_protection_mask[p] # eye_protection_mask[q]
                   /\ residual_image[p] # residual_image[q]

\* the sum of a field over the in-bounds pixels of the chord a -> b
FieldSum(field, a, b) ==
    SumSeq(ValuesAt(field, ValidPixels(image_size, num_nails, a, b)))

RECURSIVE ClipTimes(_, _)
\* the value a pixel of value v has after k commits of a chord through it
ClipTimes(v, k) == IF k = 0 THEN v ELSE ClipTimes(Clip(v), k - 1)

\* the number of commits after which a pixel of any value in [0, 255] is 0
CommitsToZero == (255 + line_darkness - 1) \div line_darkness

(* C15: with line_darkness > 0 a commit of a chord makes the residual sum  *)
(* over the in-bounds pixels of that chord strictly smaller when the sum   *)
(* was positive and leaves it at 0 when it was 0; finitely many commits of *)
(* the chord bring every pixel of it to 0, and a further commit leaves it  *)
(* at 0.                                                                   *)
C15_CommitLowersChordSum ==
    /\ [][ (ScanOver /\ ~BelowThreshold /\ line_darkness > 0) =>
               LET before == FieldSum(residual_image, current_nail,
                                      best_next_nail)
                   after == FieldSum(residual_image', current_nail,
                                     best_next_nail)
               IN IF before > 0
                  THEN after < before /\ after >= 0
                  ELSE after = 0 ]_vars
    /\ []((pc = "scan" /\ line_darkness > 0) =>
            \A b \in Nails \ {current_nail} :
                \A p \in ChordCells(current_nail, b) :
                    /\ ClipTimes(residual_image[p], CommitsToZero) = 0
                    /\ ClipTimes(residual_image[p], CommitsToZero + 1) = 0)

\* two commits made: the first left its chord with a smaller positive sum,
\* the second brought the sum of its chord from a positive value to 0
C15_Witness ==
    /\ pc = "loop"
    /\ commits = 2
    /\ Len(path) = 3
    /\ FieldSum(res_start, path[1], path[2]) > FieldSum(res_iter, path[1], path[2])
    /\ FieldSum(res_iter, path[1], path[2]) > 0
    /\ FieldSum(res_iter, path[2], path[3]) > 0
    /\ FieldSum(residual_image, path[2], path[3]) = 0

(* C16: with at least two nails every element of the path is a nail index  *)
(* in 0 .. N-1 and any two consecutive elements differ, so every committed *)
(* chord joins two distinct nails; the same holds of the returned list.    *)
C16_PathJoinsDistinctNails ==
    num_nails >= 2 =>
        /\ \A k \in 1 .. Len(path) : path[k] \in Nails
        /\ \A k \in 1 .. Len(path) - 1 : path[k] # path[k + 1]
        /\ \A k \in 1 .. Len(result) : result[k] \in Nails
        /\ \A k \in 1 .. Len(result) - 1 : result[k] # result[k + 1]

\* a returned path over three different nails of a circle of five
C16_Witness ==
    /\ pc = "returned"
    /\ num_nails = 5
    /\ Len(result) = 3
    /\ result[3] # result[1]
    /\ result[2] # 1

\* the score of the chord a -> b on the field res
ScoreOn(res, a, b) ==
    Score(gen, image_size, num_nails, res, eye_protection_mask,
          darkness_threshold, a, b)

\* the field res after a commit of the chord a -> b
DrawnOn(res, a, b) ==
    LET px == ValidPixels(image_size, num_nails, a, b)
        hit == {px[k] : k \in 1 .. Len(px)}
    IN [p \in DOMAIN res |-> IF p \in hit THEN Clip(res[p]) ELSE res[p]]

\* the winner of a scan from the nail cur on the field res: the nail of the
\* smallest index among those of maximum score, -1 without any candidate
WinnerOn(res, cur) ==
    LET cands == Nails \ {cur}
    IN IF cands = {}
       THEN -1
       ELSE CHOOSE b \in cands :
                \A j \in cands :
                    /\ ~RatLess(ScoreOn(res, cur, b), ScoreOn(res, cur, j))
                    /\ j < b => RatLess(ScoreOn(res, cur, j), ScoreOn(res, cur, b))

RECURSIVE Outcome(_, _, _)
\* what a search of k more iterations from the nail cur on the field res ends
\* with, as a function of these inputs and the parameters of the call
Outcome(res, cur, k) ==
    IF k = 0
    THEN [appended |-> <<>>, residual |-> res, state |-> "StoppedMaxLines"]
    ELSE LET best == WinnerOn(res, cur)
             top == IF best = -1 THEN <<-1, 1>> ELSE ScoreOn(res, cur, best)
         IN IF RatLess(top, <<min_improvement_score, 1>>)
            THEN [appended |-> <<>>, residual |-> res,
                  state |-> "StoppedEarlyExit"]
            ELSE LET rest == Outcome(DrawnOn(res, cur, best), best, k - 1)
                 IN [appended |-> <<best>> \o rest.appended,
                     residual |-> rest.residual,
                     state |-> rest.state]

(* C17: the search is deterministic: the path, the final residual image    *)
(* and the terminal state of a search are a function of the nail           *)
(* coordinates, the residual image and weight mask at the start and the    *)
(* parameters, so two searches that agree on these end alike.              *)
C17_OutcomeIsFunctionOfInputs ==
    pc \in {"done", "returned"} =>
        LET out == Outcome(res_start, 0, num_lines)
        IN /\ path = <<0>> \o out.appended
           /\ residual_image = out.residual
           /\ state = out.state
           /\ pc = "returned" => result = <<0>> \o out.appended

\* a finished search of two chords whose last scan had two candidates of
\* the maximum score
C17_Witness ==
    /\ pc = "done"
    /\ commits = 2
    /\ num_nails >= 4
    /\ \E a \in Nails \ {path[2]} : \E b \in Nails \ {path[2]} :
           /\ a # b
           /\ ScoreOn(res_iter, path[2], a) = max_score
           /\ ScoreOn(res_iter, path[2], b) = max_score

(* C18: the scoring pass of an iteration writes neither the residual image *)
(* nor the weight mask: from the start of the iteration to the moment the  *)
(* winner is chosen both are unchanged; only a commit changes the residual *)
(* image, and nothing changes the weight mask in the whole search.         *)
C18_ScanWritesNothing ==
    /\ [](pc = "scan" => residual_image = res_iter)
    /\ [][ /\ eye_protection_mask' = eye_protection_mask
           /\ (pc = "scan" /\ next_nail < num_nails) =>
                  residual_image' = residual_image
           /\ residual_image' # residual_image =>
                  (ScanOver /\ ~BelowThreshold /\ commits' = commits + 1) ]_vars

\* the end of the second scan of a negative-space search with protected
\* regions, on a residual image the first commit has changed
C18_Witness ==
    /\ ScanOver
    /\ gen = "negative"
    /\ eye_regions # <<>>
    /\ commits = 1
    /\ residual_image # res_start
    /\ residual_image = res_iter
    /\ best_next_nail # -1

(* C19: the only restriction on the next nail is that it differs from the  *)
(* current one: a nail already on the path, the one before the current     *)
(* nail included, stays a candidate, and when it is the best-scoring       *)
(* candidate the commit appends it again, which gives a path ..., a, b, a. *)
C19_PreviousNailCanBeReselected ==
    [][ (/\ ScanOver
         /\ ~BelowThreshold
         /\ num_nails >= 2
         /\ Len(path) >= 2
         /\ WinnerOn(residual_image, current_nail) = path[Len(path) - 1]) =>
            /\ best_next_nail = path[Len(path) - 1]
            /\ path' = Append(path, path[Len(path) - 1]) ]_vars

\* a path a, b, a on a circle where another nail could have been chosen
C19_Witness ==
    /\ pc = "loop"
    /\ commits = 2
    /\ num_nails >= 4
    /\ path[3] = path[1]
    /\ path[2] # path[1]
    /\ FieldSum(res_start, path[1], path[2]) > 0

RECURSIVE SumOver(_, _)
\* the sum of a field over a set of cells
SumOver(field, cells) ==
    IF cells = {}
    THEN 0
    ELSE LET p == CHOOSE q \in cells : TRUE
         IN field[p] + SumOver(field, cells \ {p})

\* the sum of a whole field
TotalSum(field) == SumOver(field, DOMAIN field)

\* the parameters of the call are positive where C20 asks for it
PositiveParameters ==
    /\ min_improvement_score > 0
    /\ line_darkness > 0
    /\ darkness_threshold >= 0

(* C20: with min_improvement_score > 0, line_darkness > 0 and a            *)
(* darkness_threshold >= 0, a chord is committed only when one of its      *)
(* in-bounds pixels has a positive residual, and the commit makes the sum  *)
(* of the whole residual image strictly smaller; for an integer residual   *)
(* and line_darkness the commits of a search are therefore at most the sum *)
(* at its start, and a search with more lines than that ends by early exit. *)
C20_CommitLowersTotalResidual ==
    /\ [][ (PositiveParameters /\ ScanOver /\ ~BelowThreshold) =>
               /\ \E p \in ChordCells(current_nail, best_next_nail) :
                      residual_image[p] > 0
               /\ TotalSum(residual_image') < TotalSum(residual_image) ]_vars
    /\ []((pc # "idle" /\ PositiveParameters) =>
            /\ commits + TotalSum(residual_image) <= TotalSum(res_start)
            /\ commits <= TotalSum(res_start)
            /\ (pc \in {"done", "returned"} /\ num_lines > TotalSum(res_start))
                   => state = "StoppedEarlyExit")

\* a search of two lines on a residual image of sum 1: one chord committed,
\* then the early exit
C20_Witness ==
    /\ pc = "returned"
    /\ PositiveParameters
    /\ TotalSum(res_start) = 1
    /\ num_lines = 2
    /\ commits = 1
    /\ TotalSum(residual_image) = 0
    /\ state = "StoppedEarlyExit"

-----------------------------------------------------------------------------
\* the contents of list object x: self.path.append writes to the object
\* self.path names, every other list object keeps what it held
ContentsOf(x) == IF x = path_obj THEN path ELSE unbound[x]

\* the residual images __init__ can leave on this generator
ConstructedResiduals ==
    {InitialResidual(gen, target) : target \in TargetImages(image_size)}

(* C21: a call of generate_path on a generator that already finished one   *)
(* sets the path to [0] and the current nail to 0 and leaves the residual  *)
(* image as the earlier call left it, so the new search starts from that   *)
(* residual; self.path is bound to a new list, and every list an earlier   *)
(* call returned keeps the contents it was returned with.                  *)
C21_SecondCallRestartsPathOnly ==
    /\ [][ (calls >= 1 /\ calls' = calls + 1) =>
               /\ path' = <<0>>
               /\ current_nail' = 0
               /\ residual_image' = residual_image
               /\ path_obj' # returns[Len(returns)].obj ]_vars
    /\ []((calls >= 2 /\ pc \in {"loop", "scan"} /\ iteration = 0) =>
            residual_image = res_start)
    /\ [](\A k \in 1 .. Len(returns) :
               ContentsOf(returns[k].obj) = returns[k].value)

\* the second call has committed a chord on a residual image that the first
\* call had drawn on; the first call returned a list of two nails or more,
\* which now differs from self.path
C21_Witness ==
    /\ calls = 2
    /\ commits >= 1
    /\ Len(returns) = 1
    /\ Len(returns[1].value) >= 2
    /\ returns[1].value # path
    /\ returns[1].obj # path_obj
    /\ res_start \notin ConstructedResiduals
    /\ residual_image # res_start

====
